---- MODULE Spec2Model ----
(***************************************************************************)
(* The two escrow programs of proofcart:                                   *)
(*   proofcart_escrow  src/blockchain/solana-escrow/src/lib.rs  (lamports) *)
(*   escrow            src/solana-escrow/programs/escrow/src/lib.rs (SPL)  *)
(* Each instruction is one action.  An instruction that returns Err leaves *)
(* no trace on the accounts (the runtime discards the writes of a failed   *)
(* transaction); only its result is observed, in `last`.                   *)
(*                                                                         *)
(* The two NFT canisters of proofcart:                                     *)
(*   icp_nft       src/blockchain/icp-nft/src/lib.rs      (ProductNFT)     *)
(*   nft_canister  src/icp-nft/src/nft_canister/lib.rs    (NFT)            *)
(* Each update call is one action (the canister runs one message at a time *)
(* and no update awaits).  An update that returns Err keeps whatever it    *)
(* wrote before returning; its result is observed in `reply`.              *)
(***************************************************************************)
EXTENDS Integers, FiniteSets, Sequences, TLC

\* ---------------------------------------------------------------- bounds
MaxAmount == 1
\* The transfers followed per NFT.
MaxTransfers == 2

\* ------------------------------------------------------------ the ledger
Users    == {"alice", "bob", "carol"}
Orders   == {"ORD-1"}
\* A value-holding location is named by the key that signs for it: a user's
\* own account, or the escrow PDA derived from [b"escrow", order_id].
Accounts == Users \cup Orders
Amounts  == 0..MaxAmount
Programs == {"proofcart_escrow", "escrow"}

NoTime == -1

\* The bump find_program_address yields for [b"escrow", order_id], and the
\* u8 values a client may pass as the `bump` instruction argument.
CanonicalBump(o) == 255
Bumps == {254, 255}

VARIABLES
    program,   \* which of the two programs is deployed
    escrow,    \* order_id -> the Escrow account at the PDA of that order
    balance,   \* account -> value it holds
    now,       \* Clock::get()?.unix_timestamp
    last       \* the last instruction: who called what, and its result

VARIABLES
    canister,       \* which of the two NFT canisters is installed
    NFTS,           \* nft id -> the stored NFT
    SERIAL_TO_NFT,  \* serial number -> nft id
    NFT_COUNTER,    \* the next nft id (NEXT_NFT_ID in nft_canister)
    OWNER_NFTS,     \* principal -> Vec of nft ids (nft_canister only)
    ADMIN,          \* the principal that installed icp_nft
    reply           \* the last update call: who called what, and its result

escrow_vars == <<program, escrow, balance, now, last>>
nft_vars == <<canister, NFTS, SERIAL_TO_NFT, NFT_COUNTER, OWNER_NFTS, ADMIN, reply>>
vars == <<program, escrow, balance, now, last,
          canister, NFTS, SERIAL_TO_NFT, NFT_COUNTER, OWNER_NFTS, ADMIN, reply>>

\* HashMap::new() / StableBTreeMap::init(..) on fresh memory.
EmptyMap == [k \in {} |-> 0]

NoReply ==
    [op |-> "none", caller |-> "none", arg |-> "none", nft_id |-> -1, res |-> "none"]

\* The thread_local! statics as declared.
NftStatics ==
    /\ NFTS = EmptyMap
    /\ SERIAL_TO_NFT = EmptyMap
    /\ NFT_COUNTER = 0
    /\ OWNER_NFTS = EmptyMap
    /\ reply = NoReply

\* An account that `init` has not created yet.
EmptyAccount ==
    [initialized |-> FALSE, buyer |-> "none", seller |-> "none", amount |-> 0,
     status |-> "none", bump |-> 0, created_at |-> NoTime,
     locked_at |-> NoTime, released_at |-> NoTime, resolved_at |-> NoTime]

NoCall ==
    [op |-> "none", order |-> "none", signer |-> "none", res |-> "none",
     pre |-> EmptyAccount, transfer |-> "none", from |-> "none", to |-> "none"]

Init ==
    /\ program \in Programs
    /\ escrow = [o \in Orders |-> EmptyAccount]
    /\ balance = [a \in Accounts |-> IF a \in Users THEN MaxAmount ELSE 0]
    /\ now = 0
    /\ last = NoCall
    /\ canister = "none"
    /\ ADMIN = "anonymous"
    /\ NftStatics

\* --------------------------------------------- the Ledger's value transfer
\* system_program::transfer / token::transfer: all-or-nothing.  It fails when
\* the ledger fails (ledger_ok = FALSE), when no signer of the CPI signs for
\* `from`, or when `from` holds less than `amount`.
TransferOk(bal, from, amount, signers, ledger_ok) ==
    ledger_ok /\ from \in signers /\ bal[from] >= amount

Transfer(bal, from, to, amount) ==
    IF from = to THEN bal
    ELSE [bal EXCEPT ![from] = @ - amount, ![to] = @ + amount]

\* ------------------------------------------------ Anchor account constraints
\* init_if_needed in the place of init: an existing account is taken as is.
InitConstraint_if_needed(e) == "Ok"

\* #[account(init, seeds = [b"escrow", order_id.as_bytes()], bump)]
InitConstraint(e) ==
    IF e.initialized THEN "AccountAlreadyInUse" ELSE "Ok"

\* #[account(mut, seeds = [b"escrow", escrow.order_id.as_bytes()], bump = escrow.bump)]
\* on an Account<'info, Escrow>.
SeedsConstraint(e, o) ==
    IF ~e.initialized THEN "AccountNotInitialized"
    ELSE IF e.bump # CanonicalBump(o) THEN "ConstraintSeeds"
    ELSE "Ok"

\* The spec's error taxonomy (section 7) of the programs' error codes.
Kind(res) ==
    CASE res \in {"UnauthorizedBuyer", "Unauthorized"} -> "Unauthorized"
      [] res \in {"InvalidEscrowStatus", "EscrowNotLocked", "InvalidState"} -> "InvalidState"
      [] res = "AccountAlreadyInUse" -> "AlreadyExists"
      [] res = "AccountNotInitialized" -> "NotFound"
      [] OTHER -> res

\* An instruction's outcome: its result, the accounts as it leaves them, and
\* what became of the transfer it asked of the Ledger ("none" when it asked
\* for none, "moved" with its source and destination, or "failed").
Outcome(res, e, bal, transfer, from, to) ==
    [res |-> res, e |-> e, bal |-> bal, transfer |-> transfer, from |-> from, to |-> to]

\* require!(..) failed, or an account constraint did: Err before any transfer.
Rejected(res, e, bal) == Outcome(res, e, bal, "none", "none", "none")

\* transfer(..)? propagated the Ledger's error.
TransferFailed(e, bal) == Outcome("TransferFailed", e, bal, "failed", "none", "none")

\* Ok(()) of an instruction that asks for no transfer.
Done(e, bal) == Outcome("Ok", e, bal, "none", "none", "none")

\* Ok(()) after the transfer went through.
Paid(e, bal, from, to) == Outcome("Ok", e, bal, "moved", from, to)

\* The runtime applies the outcome of an instruction: the writes are kept
\* when it returned Ok(()) and discarded when it returned Err.
Commit(op, o, signer, out) ==
    /\ IF out.res = "Ok"
       THEN /\ escrow' = [escrow EXCEPT ![o] = out.e]
            /\ balance' = out.bal
            /\ now' = now + 1
       ELSE UNCHANGED <<escrow, balance, now>>
    /\ last' = [op |-> op, order |-> o, signer |-> signer, res |-> out.res,
                pre |-> escrow[o], transfer |-> out.transfer,
                from |-> out.from, to |-> out.to]
    /\ UNCHANGED program
    /\ UNCHANGED nft_vars

\* =================================================== program proofcart_escrow

\* create_escrow: fills the account, status Created; no transfer.
proofcart_escrow_create_escrow_run(e, bal, o, amount, bump, buyer, seller) ==
    LET acc == InitConstraint(e) IN
    IF acc # "Ok" THEN Rejected(acc, e, bal)
    ELSE Done([initialized |-> TRUE, buyer |-> buyer, seller |-> seller,
                  amount |-> amount, status |-> "Created", bump |-> bump,
                  created_at |-> now, locked_at |-> NoTime,
                  released_at |-> NoTime, resolved_at |-> NoTime], bal)

proofcart_escrow_create_escrow(o, amount, bump, buyer, seller) ==
    /\ program = "proofcart_escrow"
    /\ Commit("create_escrow", o, buyer,
              proofcart_escrow_create_escrow_run(escrow[o], balance, o, amount, bump, buyer, seller))

\* A confirm_delivery without its status check.
confirm_delivery_require_any_status(e, buyer) ==
    IF buyer # e.buyer THEN "UnauthorizedBuyer" ELSE "Ok"

\* confirm_delivery: the require! checks, in the order of the code.
confirm_delivery_require(e, buyer) ==
    IF buyer # e.buyer THEN "UnauthorizedBuyer"
    ELSE IF ~(e.status = "Created" \/ e.status = "Locked") THEN "InvalidEscrowStatus"
    ELSE "Ok"

\* A confirm_delivery that drops the transfer's Result instead of returning it.
confirm_delivery_run_unchecked_transfer(e, bal, o, buyer, seller, escrow_account, ledger_ok) ==
    LET acc == SeedsConstraint(e, o)
        req == confirm_delivery_require(e, buyer)
        released == [e EXCEPT !.status = "Released", !.released_at = now]
    IN
    IF acc # "Ok" THEN Rejected(acc, e, bal)
    ELSE IF req # "Ok" THEN Rejected(req, e, bal)
    ELSE IF ~TransferOk(bal, escrow_account, e.amount, {buyer, o}, ledger_ok)
         THEN Outcome("Ok", released, bal, "failed", "none", "none")
    ELSE Paid(released, Transfer(bal, escrow_account, seller, e.amount),
              escrow_account, seller)

confirm_delivery_run(e, bal, o, buyer, seller, escrow_account, ledger_ok) ==
    LET acc == SeedsConstraint(e, o)
        req == confirm_delivery_require(e, buyer)
    IN
    IF acc # "Ok" THEN Rejected(acc, e, bal)
    ELSE IF req # "Ok" THEN Rejected(req, e, bal)
    ELSE IF ~TransferOk(bal, escrow_account, e.amount, {buyer, o}, ledger_ok)
         THEN TransferFailed(e, bal)
    ELSE Paid([e EXCEPT !.status = "Released", !.released_at = now],
              Transfer(bal, escrow_account, seller, e.amount),
              escrow_account, seller)

confirm_delivery(o, buyer, seller, escrow_account, ledger_ok) ==
    /\ program = "proofcart_escrow"
    /\ Commit("confirm_delivery", o, buyer,
              confirm_delivery_run(escrow[o], balance, o, buyer, seller, escrow_account, ledger_ok))

\* A lock_dispute that may lock again what is already locked.
lock_dispute_require_relock(e, buyer) ==
    IF buyer # e.buyer THEN "UnauthorizedBuyer"
    ELSE IF ~(e.status = "Created" \/ e.status = "Locked") THEN "InvalidEscrowStatus"
    ELSE "Ok"

\* lock_dispute
lock_dispute_require(e, buyer) ==
    IF buyer # e.buyer THEN "UnauthorizedBuyer"
    ELSE IF e.status # "Created" THEN "InvalidEscrowStatus"
    ELSE "Ok"

lock_dispute_run(e, bal, o, buyer) ==
    LET acc == SeedsConstraint(e, o)
        req == lock_dispute_require(e, buyer)
    IN
    IF acc # "Ok" THEN Rejected(acc, e, bal)
    ELSE IF req # "Ok" THEN Rejected(req, e, bal)
    ELSE Done([e EXCEPT !.status = "Locked", !.locked_at = now], bal)

lock_dispute(o, buyer) ==
    /\ program = "proofcart_escrow"
    /\ Commit("lock_dispute", o, buyer, lock_dispute_run(escrow[o], balance, o, buyer))

\* A resolve_refund that also accepts an escrow that was never locked.
resolve_refund_require_unlocked(e, admin) ==
    IF ~(e.status = "Created" \/ e.status = "Locked") THEN "EscrowNotLocked" ELSE "Ok"

\* resolve_refund: the only require! is on the status; `admin` is any signer.
resolve_refund_require(e, admin) ==
    IF e.status # "Locked" THEN "EscrowNotLocked" ELSE "Ok"

resolve_refund_run(e, bal, o, admin, buyer, escrow_account, ledger_ok) ==
    LET acc == SeedsConstraint(e, o)
        req == resolve_refund_require(e, admin)
    IN
    IF acc # "Ok" THEN Rejected(acc, e, bal)
    ELSE IF req # "Ok" THEN Rejected(req, e, bal)
    ELSE IF ~TransferOk(bal, escrow_account, e.amount, {admin, o}, ledger_ok)
         THEN TransferFailed(e, bal)
    ELSE Paid([e EXCEPT !.status = "Refunded", !.resolved_at = now],
              Transfer(bal, escrow_account, buyer, e.amount),
              escrow_account, buyer)

resolve_refund(o, admin, buyer, escrow_account, ledger_ok) ==
    /\ program = "proofcart_escrow"
    /\ Commit("resolve_refund", o, admin,
              resolve_refund_run(escrow[o], balance, o, admin, buyer, escrow_account, ledger_ok))

\* A resolve_release that does not look at the status.
resolve_release_require_any_status(e, admin) == "Ok"

\* resolve_release
resolve_release_require(e, admin) ==
    IF e.status # "Locked" THEN "EscrowNotLocked" ELSE "Ok"

resolve_release_run(e, bal, o, admin, seller, escrow_account, ledger_ok) ==
    LET acc == SeedsConstraint(e, o)
        req == resolve_release_require(e, admin)
    IN
    IF acc # "Ok" THEN Rejected(acc, e, bal)
    ELSE IF req # "Ok" THEN Rejected(req, e, bal)
    ELSE IF ~TransferOk(bal, escrow_account, e.amount, {admin, o}, ledger_ok)
         THEN TransferFailed(e, bal)
    ELSE Paid([e EXCEPT !.status = "Released", !.resolved_at = now],
              Transfer(bal, escrow_account, seller, e.amount),
              escrow_account, seller)

resolve_release(o, admin, seller, escrow_account, ledger_ok) ==
    /\ program = "proofcart_escrow"
    /\ Commit("resolve_release", o, admin,
              resolve_release_run(escrow[o], balance, o, admin, seller, escrow_account, ledger_ok))

\* ============================================================ program escrow

\* create_escrow: fills the account, moves `amount` from the buyer's token
\* account to the escrow token account passed in, then state Locked.
escrow_create_escrow_run(e, bal, o, amount, bump, buyer, seller, buyer_token_account, escrow_token_account, ledger_ok) ==
    LET acc == InitConstraint(e)
        created == [initialized |-> TRUE, buyer |-> buyer, seller |-> seller,
                    amount |-> amount, status |-> "Created", bump |-> bump,
                    created_at |-> now, locked_at |-> NoTime,
                    released_at |-> NoTime, resolved_at |-> NoTime]
    IN
    IF acc # "Ok" THEN Rejected(acc, e, bal)
    ELSE IF ~TransferOk(bal, buyer_token_account, amount, {buyer}, ledger_ok)
         THEN TransferFailed(created, bal)
    ELSE Paid([created EXCEPT !.status = "Locked"],
              Transfer(bal, buyer_token_account, escrow_token_account, amount),
              buyer_token_account, escrow_token_account)

escrow_create_escrow(o, amount, bump, buyer, seller, buyer_token_account, escrow_token_account, ledger_ok) ==
    /\ program = "escrow"
    /\ Commit("create_escrow", o, buyer,
              escrow_create_escrow_run(escrow[o], balance, o, amount, bump, buyer, seller,
                                       buyer_token_account, escrow_token_account, ledger_ok))

\* A release_escrow that does not look at who signed.
release_escrow_require_any_caller(e, buyer) ==
    IF e.status # "Locked" THEN "InvalidState" ELSE "Ok"

\* A release_escrow with its two require! checks swapped.
release_escrow_require_caller_first(e, buyer) ==
    IF e.buyer # buyer THEN "Unauthorized"
    ELSE IF e.status # "Locked" THEN "InvalidState"
    ELSE "Ok"

\* release_escrow: state check, then caller check.
release_escrow_require(e, buyer) ==
    IF e.status # "Locked" THEN "InvalidState"
    ELSE IF e.buyer # buyer THEN "Unauthorized"
    ELSE "Ok"

release_escrow_run(e, bal, o, buyer, seller_token_account, escrow_token_account, ledger_ok) ==
    LET acc == SeedsConstraint(e, o)
        req == release_escrow_require(e, buyer)
    IN
    IF acc # "Ok" THEN Rejected(acc, e, bal)
    ELSE IF req # "Ok" THEN Rejected(req, e, bal)
    ELSE IF ~TransferOk(bal, escrow_token_account, e.amount, {o}, ledger_ok)
         THEN TransferFailed(e, bal)
    ELSE Paid([e EXCEPT !.status = "Released", !.released_at = now],
              Transfer(bal, escrow_token_account, seller_token_account, e.amount),
              escrow_token_account, seller_token_account)

release_escrow(o, buyer, seller_token_account, escrow_token_account, ledger_ok) ==
    /\ program = "escrow"
    /\ Commit("release_escrow", o, buyer,
              release_escrow_run(escrow[o], balance, o, buyer,
                                 seller_token_account, escrow_token_account, ledger_ok))

\* A refund_escrow that clears the amount of the escrow it has paid back.
refund_escrow_run_zeroes_amount(e, bal, o, authority, buyer_token_account, escrow_token_account, ledger_ok) ==
    LET acc == SeedsConstraint(e, o)
        req == IF ~(e.status = "Locked" \/ e.status = "Disputed") THEN "InvalidState"
               ELSE IF ~(e.seller = authority \/ authority = e.buyer) THEN "Unauthorized"
               ELSE "Ok"
    IN
    IF acc # "Ok" THEN Rejected(acc, e, bal)
    ELSE IF req # "Ok" THEN Rejected(req, e, bal)
    ELSE IF ~TransferOk(bal, escrow_token_account, e.amount, {o}, ledger_ok)
         THEN TransferFailed(e, bal)
    ELSE Paid([e EXCEPT !.status = "Refunded", !.amount = 0],
              Transfer(bal, escrow_token_account, buyer_token_account, e.amount),
              escrow_token_account, buyer_token_account)

\* A refund_escrow that does not look at the state.
refund_escrow_require_any_state(e, authority) ==
    IF ~(e.seller = authority \/ authority = e.buyer) THEN "Unauthorized" ELSE "Ok"

\* refund_escrow
refund_escrow_require(e, authority) ==
    IF ~(e.status = "Locked" \/ e.status = "Disputed") THEN "InvalidState"
    ELSE IF ~(e.seller = authority \/ authority = e.buyer) THEN "Unauthorized"
    ELSE "Ok"

refund_escrow_run(e, bal, o, authority, buyer_token_account, escrow_token_account, ledger_ok) ==
    LET acc == SeedsConstraint(e, o)
        req == refund_escrow_require(e, authority)
    IN
    IF acc # "Ok" THEN Rejected(acc, e, bal)
    ELSE IF req # "Ok" THEN Rejected(req, e, bal)
    ELSE IF ~TransferOk(bal, escrow_token_account, e.amount, {o}, ledger_ok)
         THEN TransferFailed(e, bal)
    ELSE Paid([e EXCEPT !.status = "Refunded"],
              Transfer(bal, escrow_token_account, buyer_token_account, e.amount),
              escrow_token_account, buyer_token_account)

refund_escrow(o, authority, buyer_token_account, escrow_token_account, ledger_ok) ==
    /\ program = "escrow"
    /\ Commit("refund_escrow", o, authority,
              refund_escrow_run(escrow[o], balance, o, authority,
                                buyer_token_account, escrow_token_account, ledger_ok))

\* A dispute_escrow that anyone may call.
dispute_escrow_require_any_caller(e, authority) ==
    IF e.status # "Locked" THEN "InvalidState" ELSE "Ok"

\* dispute_escrow
dispute_escrow_require(e, authority) ==
    IF e.status # "Locked" THEN "InvalidState"
    ELSE IF ~(e.buyer = authority \/ e.seller = authority) THEN "Unauthorized"
    ELSE "Ok"

dispute_escrow_run(e, bal, o, authority) ==
    LET acc == SeedsConstraint(e, o)
        req == dispute_escrow_require(e, authority)
    IN
    IF acc # "Ok" THEN Rejected(acc, e, bal)
    ELSE IF req # "Ok" THEN Rejected(req, e, bal)
    ELSE Done([e EXCEPT !.status = "Disputed"], bal)

dispute_escrow(o, authority) ==
    /\ program = "escrow"
    /\ Commit("dispute_escrow", o, authority,
              dispute_escrow_run(escrow[o], balance, o, authority))

\* ============================================================= specification
\* The accounts an instruction leaves unchecked are inputs of the caller.  The
\* source of a transfer is drawn from the accounts one of its signers signs
\* for; any other source makes the Ledger refuse, as ledger_ok = FALSE does.
Next ==
    \/ \E o \in Orders, amount \in Amounts, bump \in Bumps, buyer \in Users, seller \in Users :
          proofcart_escrow_create_escrow(o, amount, bump, buyer, seller)
    \/ \E o \in Orders, buyer \in Users, seller \in Accounts, ledger_ok \in BOOLEAN :
          \E escrow_account \in {o, buyer} :
              confirm_delivery(o, buyer, seller, escrow_account, ledger_ok)
    \/ \E o \in Orders, buyer \in Users : lock_dispute(o, buyer)
    \/ \E o \in Orders, admin \in Users, buyer \in Accounts, ledger_ok \in BOOLEAN :
          \E escrow_account \in {o, admin} :
              resolve_refund(o, admin, buyer, escrow_account, ledger_ok)
    \/ \E o \in Orders, admin \in Users, seller \in Accounts, ledger_ok \in BOOLEAN :
          \E escrow_account \in {o, admin} :
              resolve_release(o, admin, seller, escrow_account, ledger_ok)
    \/ \E o \in Orders, amount \in Amounts, bump \in Bumps, buyer \in Users, seller \in Users,
          escrow_token_account \in Accounts, ledger_ok \in BOOLEAN :
          escrow_create_escrow(o, amount, bump, buyer, seller,
                               buyer, escrow_token_account, ledger_ok)
    \/ \E o \in Orders, buyer \in Users, seller_token_account \in Accounts,
          ledger_ok \in BOOLEAN :
          release_escrow(o, buyer, seller_token_account, o, ledger_ok)
    \/ \E o \in Orders, authority \in Users, buyer_token_account \in Accounts,
          ledger_ok \in BOOLEAN :
          refund_escrow(o, authority, buyer_token_account, o, ledger_ok)
    \/ \E o \in Orders, authority \in Users : dispute_escrow(o, authority)

Spec == Init /\ [][Next]_vars

\* ================================================================ NFT canisters
Principals == {"alice", "bob"}
Canisters  == {"icp_nft", "nft_canister"}
Serials    == {"SN-1", "SN-2"}
\* The nft ids a caller may name: those that can be minted and one that cannot.
NftIds     == 0..Cardinality(Serials)

\* HashMap::insert / StableBTreeMap::insert: the value replaces what was there.
Insert(map, k, v) == [x \in DOMAIN map \cup {k} |-> IF x = k THEN v ELSE map[x]]

\* A retain that removes nothing.
Retain_keeps_all(ids, nft_id) == ids

\* Vec::retain(|&id| id != nft_id)
Retain(ids, nft_id) == SelectSeq(ids, LAMBDA id : id # nft_id)

\* owners.entry(p).or_insert_with(Vec::new).push(nft_id)
PushEntry(owners, p, nft_id) ==
    Insert(owners, p, Append(IF p \in DOMAIN owners THEN owners[p] ELSE <<>>, nft_id))

\* `arg` is the call's other argument: the serial number of a mint, the new
\* owner of a transfer.
Reply(op, caller, arg, nft_id, res) ==
    [op |-> op, caller |-> caller, arg |-> arg, nft_id |-> nft_id, res |-> res]

\* A serial check that finds nothing.
serial_exists_never(serial_number) == FALSE

\* SERIAL_TO_NFT ... get(&request.serial_number).is_some() / contains_key
serial_exists(serial_number) == serial_number \in DOMAIN SERIAL_TO_NFT

\* A transfer_nft that anyone may call.
transfer_nft_require_any_caller(nft_id, caller) ==
    IF nft_id \notin DOMAIN NFTS THEN "NotFound" ELSE "Ok"

\* transfer_nft, in both canisters: look the NFT up, then compare its owner
\* with the caller.
transfer_nft_require(nft_id, caller) ==
    IF nft_id \notin DOMAIN NFTS THEN "NotFound"
    ELSE IF NFTS[nft_id].owner # caller THEN "NotOwner"
    ELSE "Ok"

\* OwnershipRecord { owner, timestamp, transaction_type } of icp_nft and
\* TransferRecord { from, to, timestamp } of nft_canister; the timestamps
\* (ic_cdk::api::time()) are read by no branch and are left out.
OwnershipRecord(owner, transaction_type) ==
    [owner |-> owner, transaction_type |-> transaction_type]

\* A transfer record written the wrong way round.
TransferRecord_reversed(from, to) == [from |-> to, to |-> from]

TransferRecord(from, to) == [from |-> from, to |-> to]

\* --------------------------------------------------------------- icp_nft
\* mint_product_nft: the caller becomes the owner; the history starts with
\* its "mint" record.
mint_product_nft(owner, serial_number) ==
    /\ canister = "icp_nft"
    /\ IF serial_exists(serial_number)
       THEN /\ reply' = Reply("mint", owner, serial_number, -1, "SerialExists")
            /\ UNCHANGED <<NFTS, SERIAL_TO_NFT, NFT_COUNTER>>
       ELSE LET nft_id == NFT_COUNTER
                nft == [nft_id |-> nft_id, serial_number |-> serial_number,
                        owner |-> owner, verified |-> TRUE,
                        ownership_history |->
                            <<OwnershipRecord(owner, "mint")>>]
            IN
            /\ NFT_COUNTER' = nft_id + 1
            /\ NFTS' = Insert(NFTS, nft_id, nft)
            /\ SERIAL_TO_NFT' = Insert(SERIAL_TO_NFT, serial_number, nft_id)
            /\ reply' = Reply("mint", owner, serial_number, nft_id, "Ok")
    /\ UNCHANGED <<canister, OWNER_NFTS, ADMIN>>
    /\ UNCHANGED escrow_vars

\* transfer_nft of icp_nft
icp_nft_transfer_nft(caller, nft_id, new_owner) ==
    /\ canister = "icp_nft"
    /\ transfer_nft_require(nft_id, caller) = "Ok"
          => Len(NFTS[nft_id].ownership_history) <= MaxTransfers
    /\ IF transfer_nft_require(nft_id, caller) # "Ok"
       THEN /\ reply' = Reply("transfer", caller, new_owner, nft_id,
                              transfer_nft_require(nft_id, caller))
            /\ UNCHANGED NFTS
       ELSE LET nft == NFTS[nft_id]
                moved == [nft EXCEPT
                            !.owner = new_owner,
                            !.ownership_history =
                                Append(@, OwnershipRecord(new_owner, "transfer"))]
            IN
            /\ NFTS' = Insert(NFTS, nft_id, moved)
            /\ reply' = Reply("transfer", caller, new_owner, nft_id, "Ok")
    /\ UNCHANGED <<canister, SERIAL_TO_NFT, NFT_COUNTER, OWNER_NFTS, ADMIN>>
    /\ UNCHANGED escrow_vars

\* revoke_verification: admin check, then lookup.
revoke_verification(caller, nft_id) ==
    /\ canister = "icp_nft"
    /\ IF ADMIN # caller
       THEN /\ reply' = Reply("revoke", caller, "none", nft_id, "NotAdmin")
            /\ UNCHANGED NFTS
       ELSE IF nft_id \notin DOMAIN NFTS
       THEN /\ reply' = Reply("revoke", caller, "none", nft_id, "NotFound")
            /\ UNCHANGED NFTS
       ELSE /\ NFTS' = Insert(NFTS, nft_id, [NFTS[nft_id] EXCEPT !.verified = FALSE])
            /\ reply' = Reply("revoke", caller, "none", nft_id, "Ok")
    /\ UNCHANGED <<canister, SERIAL_TO_NFT, NFT_COUNTER, OWNER_NFTS, ADMIN>>
    /\ UNCHANGED escrow_vars

\* ---------------------------------------------------------- nft_canister
\* mint_nft: the caller becomes the owner; the transfer history starts empty.
mint_nft(caller, serial_number) ==
    /\ canister = "nft_canister"
    /\ IF serial_exists(serial_number)
       THEN /\ reply' = Reply("mint", caller, serial_number, -1, "SerialExists")
            /\ UNCHANGED <<NFTS, SERIAL_TO_NFT, NFT_COUNTER, OWNER_NFTS>>
       ELSE LET nft_id == NFT_COUNTER
                nft == [id |-> nft_id, serial_number |-> serial_number,
                        owner |-> caller, transfer_history |-> <<>>]
            IN
            /\ NFT_COUNTER' = nft_id + 1
            /\ NFTS' = Insert(NFTS, nft_id, nft)
            /\ SERIAL_TO_NFT' = Insert(SERIAL_TO_NFT, serial_number, nft_id)
            /\ OWNER_NFTS' = PushEntry(OWNER_NFTS, caller, nft_id)
            /\ reply' = Reply("mint", caller, serial_number, nft_id, "Ok")
    /\ UNCHANGED <<canister, ADMIN>>
    /\ UNCHANGED escrow_vars

\* The owner index after a transfer: the id is removed from the caller's Vec
\* (when the caller has one) and pushed onto the new owner's.
transfer_nft_owners(owners, caller, nft_id, new_owner) ==
    LET removed == IF caller \in DOMAIN owners
                   THEN [owners EXCEPT ![caller] = Retain(@, nft_id)]
                   ELSE owners
    IN PushEntry(removed, new_owner, nft_id)

\* transfer_nft of nft_canister
nft_canister_transfer_nft(caller, nft_id, new_owner) ==
    /\ canister = "nft_canister"
    /\ transfer_nft_require(nft_id, caller) = "Ok"
          => Len(NFTS[nft_id].transfer_history) < MaxTransfers
    /\ IF transfer_nft_require(nft_id, caller) # "Ok"
       THEN /\ reply' = Reply("transfer", caller, new_owner, nft_id,
                              transfer_nft_require(nft_id, caller))
            /\ UNCHANGED <<NFTS, OWNER_NFTS>>
       ELSE LET nft == NFTS[nft_id]
                moved == [nft EXCEPT
                            !.owner = new_owner,
                            !.transfer_history =
                                Append(@, TransferRecord(caller, new_owner))]
            IN
            /\ NFTS' = Insert(NFTS, nft_id, moved)
            /\ OWNER_NFTS' = transfer_nft_owners(OWNER_NFTS, caller, nft_id, new_owner)
            /\ reply' = Reply("transfer", caller, new_owner, nft_id, "Ok")
    /\ UNCHANGED <<canister, SERIAL_TO_NFT, NFT_COUNTER, ADMIN>>
    /\ UNCHANGED escrow_vars

\* get_owner_nfts: the stored NFTs named by the owner's Vec, in its order.
get_owner_nfts(owner) ==
    IF owner \notin DOMAIN OWNER_NFTS THEN <<>>
    ELSE LET found == SelectSeq(OWNER_NFTS[owner], LAMBDA id : id \in DOMAIN NFTS)
         IN [i \in 1..Len(found) |-> NFTS[found[i]]]

\* A canister has been installed; icp_nft's init records its installer as
\* ADMIN, nft_canister has no init.  No escrow program takes part.
InitNft ==
    /\ canister \in Canisters
    /\ ADMIN \in (IF canister = "icp_nft" THEN Principals ELSE {"anonymous"})
    /\ NftStatics
    /\ program = "none"
    /\ escrow = [o \in Orders |-> EmptyAccount]
    /\ balance = [a \in Accounts |-> IF a \in Users THEN MaxAmount ELSE 0]
    /\ now = 0
    /\ last = NoCall

NextNft ==
    \/ \E owner \in Principals, serial_number \in Serials :
          mint_product_nft(owner, serial_number)
    \/ \E caller \in Principals, nft_id \in NftIds, new_owner \in Principals :
          icp_nft_transfer_nft(caller, nft_id, new_owner)
    \/ \E caller \in Principals, nft_id \in NftIds : revoke_verification(caller, nft_id)
    \/ \E caller \in Principals, serial_number \in Serials : mint_nft(caller, serial_number)
    \/ \E caller \in Principals, nft_id \in NftIds, new_owner \in Principals :
          nft_canister_transfer_nft(caller, nft_id, new_owner)

SpecNft == InitNft /\ [][NextNft]_vars

\* ==================================================================== claims
Terminal == {"Released", "Refunded"}
Open     == {"Created", "Locked", "Disputed"}

\* The keys the deployed program holds as admin or arbiter: neither program
\* stores one (ResolveDispute.admin is a bare Signer).
ConfiguredAdmins == {}

\* The instruction reached its handler: the escrow account exists and passes
\* the seeds constraint.
Reached == last.op # "none" /\ SeedsConstraint(last.pre, last.order) = "Ok"

\* The transition graph of section 4.1.
TransitionGraph ==
    {<<"none", "Created">>, <<"none", "Locked">>,
     <<"Created", "Locked">>, <<"Created", "Released">>,
     <<"Locked", "Disputed">>, <<"Locked", "Released">>, <<"Locked", "Refunded">>,
     <<"Disputed", "Released">>, <<"Disputed", "Refunded">>}

\* C1: every change of an order's status is an edge of the transition graph
\* (the graph is acyclic, so no status is revisited; Created -> Refunded is
\* not an edge).
C1_StatusFollowsGraph ==
    [][\A o \in Orders :
          escrow'[o].status # escrow[o].status
              => <<escrow[o].status, escrow'[o].status>> \in TransitionGraph]_vars

\* C1 witness: a refund has just taken a disputed escrow to Refunded.
C1_Witness ==
    \E o \in Orders :
        /\ last.res = "Ok" /\ last.order = o
        /\ last.pre.status = "Disputed" /\ escrow[o].status = "Refunded"

\* C2: custody holds exactly the record's amount while the escrow is Created,
\* Locked or Disputed, and nothing once it is Released or Refunded.
C2_Conservation ==
    \A o \in Orders :
        escrow[o].initialized =>
            balance[o] = IF escrow[o].status \in Open THEN escrow[o].amount ELSE 0

\* C3: when the Ledger refuses the transfer of an instruction whose checks
\* passed, the instruction returns an error and the record (status and all
\* timestamps) is what it was before; a create_escrow leaves no record.
C3_TransferFailureIsAtomic ==
    last.transfer = "failed" =>
        /\ last.res = "TransferFailed"
        /\ escrow[last.order] = last.pre
        /\ (last.op = "create_escrow" => ~escrow[last.order].initialized)

\* C3 witness: the Ledger refused the payout of an open escrow.
C3_Witness ==
    /\ last.transfer = "failed"
    /\ last.op \in {"confirm_delivery", "resolve_refund", "resolve_release",
                    "release_escrow", "refund_escrow"}
    /\ last.pre.status \in Open
    /\ escrow[last.order].status = last.pre.status

\* C4: a resolve_refund or resolve_release signed by a key that is not the
\* configured admin (here: not even a party of the order) changes nothing:
\* the escrow stays Locked and no funds move.
C4_ResolveNeedsAdmin ==
    (/\ Reached
     /\ last.op \in {"resolve_refund", "resolve_release"}
     /\ last.pre.status = "Locked"
     /\ last.signer \notin ConfiguredAdmins \cup {last.pre.buyer, last.pre.seller})
        => /\ last.res # "Ok"
           /\ escrow[last.order].status = "Locked"
           /\ last.transfer # "moved"

\* The role each instruction asks of its caller (table of section 4.1).
RequiredRole(op, e) ==
    CASE op \in {"confirm_delivery", "release_escrow", "lock_dispute"} -> {e.buyer}
      [] op \in {"dispute_escrow", "refund_escrow"} -> {e.buyer, e.seller}
      [] op \in {"resolve_refund", "resolve_release"} -> ConfiguredAdmins
      [] OTHER -> {}

MutatingOps ==
    {"confirm_delivery", "lock_dispute", "resolve_refund", "resolve_release",
     "release_escrow", "refund_escrow", "dispute_escrow"}

\* C5: on an existing order, in whatever status, a caller who has neither the
\* role the instruction requires (he is no party of the order) nor an admin
\* key receives Unauthorized.
C5_OutsiderIsUnauthorized ==
    (/\ Reached
     /\ last.op \in MutatingOps
     /\ last.signer \notin RequiredRole(last.op, last.pre) \cup ConfiguredAdmins
     /\ last.signer \notin {last.pre.buyer, last.pre.seller})
        => Kind(last.res) = "Unauthorized"

\* C6: a successful release pays the escrowed amount to the seller stored in
\* the record, a successful refund pays it to the buyer stored in the record.
C6_PayoutDestination ==
    (last.transfer = "moved" /\ last.from = last.order /\ last.pre.amount > 0) =>
        /\ last.op \in {"confirm_delivery", "release_escrow", "resolve_release"}
               => last.to = last.pre.seller
        /\ last.op \in {"resolve_refund", "refund_escrow"}
               => last.to = last.pre.buyer

\* C7: once an order is Released or Refunded its record never changes again,
\* and every instruction on it is rejected and moves no funds.
C7_TerminalIsAbsorbing ==
    [][\A o \in Orders :
          escrow[o].status \in Terminal =>
              /\ escrow'[o] = escrow[o]
              /\ last'.order = o => (last'.res # "Ok" /\ balance' = balance)]_vars

\* C7 witness: an instruction was tried on a terminal record and rejected.
C7_Witness ==
    /\ last.op \in MutatingOps
    /\ last.pre.status \in Terminal
    /\ last.signer = last.pre.buyer
    /\ last.res # "Ok"

\* The step invokes again, with the same caller and order, the instruction
\* that has just succeeded.
Replay ==
    /\ last.res = "Ok"
    /\ last'.op = last.op /\ last'.order = last.order /\ last'.signer = last.signer

\* C8: replaying an instruction right after it succeeded yields InvalidState
\* and changes neither the record nor the balances.
C8_ReplayIsInvalidState ==
    [][Replay => (Kind(last'.res) = "InvalidState" /\ UNCHANGED <<escrow, balance>>)]_vars

\* C8 (amended): the replay of any instruction but create_escrow yields the
\* program's invalid-state error, the replay of create_escrow yields
\* AlreadyExists; neither changes the record or the balances.
C8_ReplayIsRejected ==
    [][Replay =>
          /\ Kind(last'.res) =
                 IF last.op = "create_escrow" THEN "AlreadyExists" ELSE "InvalidState"
          /\ UNCHANGED <<escrow, balance>>]_vars

\* C8 witness: the buyer's lock_dispute was the last instruction to succeed
\* and his second lock_dispute is rejected.
C8_Witness ==
    /\ last.op = "lock_dispute"
    /\ last.signer = last.pre.buyer
    /\ last.pre.status = "Locked" /\ last.pre.locked_at = now - 1
    /\ Kind(last.res) = "InvalidState"

\* The statuses each instruction accepts, and the instructions that check
\* their caller against the record.
AllowedFrom(op) ==
    CASE op = "confirm_delivery" -> {"Created", "Locked"}
      [] op = "lock_dispute" -> {"Created"}
      [] op \in {"resolve_refund", "resolve_release", "release_escrow", "dispute_escrow"}
            -> {"Locked"}
      [] op = "refund_escrow" -> {"Locked", "Disputed"}
      [] OTHER -> {}

RoleCheckedOps ==
    {"confirm_delivery", "lock_dispute", "release_escrow", "refund_escrow", "dispute_escrow"}

\* The last call broke both preconditions: wrong status and wrong caller.
BothViolated ==
    /\ Reached
    /\ last.op \in RoleCheckedOps
    /\ last.pre.status \notin AllowedFrom(last.op)
    /\ last.signer \notin RequiredRole(last.op, last.pre)

\* Whenever a transfer was asked of the Ledger, the checks had passed.
ChecksPrecedeTransfer ==
    (last.transfer # "none" /\ last.op \in MutatingOps) =>
        /\ last.pre.status \in AllowedFrom(last.op)
        /\ last.op \in RoleCheckedOps => last.signer \in RequiredRole(last.op, last.pre)

C10_CreateOnExistingOrderFails ==
    [][\A o \in Orders :
          (escrow[o].initialized /\ last'.op = "create_escrow" /\ last'.order = o)
              => (Kind(last'.res) = "AlreadyExists" /\ UNCHANGED <<escrow, balance>>)]_vars

\* C10 witness: a second create_escrow, by another caller, was refused on an
\* order whose escrow is already settled.
C10_Witness ==
    /\ last.op = "create_escrow"
    /\ last.pre.initialized /\ last.pre.status \in Terminal
    /\ last.signer # last.pre.buyer
    /\ Kind(last.res) = "AlreadyExists"

\* C11: a successful funding create_escrow moves exactly `amount` from the
\* buyer into the order's custody, and the record is Locked with custody
\* holding the stored amount.
C11_FundedOnCreate ==
    (/\ program = "escrow"
     /\ last.op = "create_escrow" /\ last.res = "Ok"
     /\ escrow[last.order].amount > 0)
        => /\ escrow[last.order].status = "Locked"
           /\ last.transfer = "moved"
           /\ last.from = escrow[last.order].buyer
           /\ last.to = last.order
           /\ balance[last.order] = escrow[last.order].amount

\* C12: a successful confirm_release is the buyer's, from Created or Locked;
\* it moves the amount from custody to the stored seller, leaves custody
\* empty and the record Released with released_at set; from Disputed,
\* Released and Refunded it is rejected.
C12_ConfirmRelease ==
    /\ (/\ last.op \in {"confirm_delivery", "release_escrow"}
        /\ last.res = "Ok"
        /\ last.pre.amount > 0)
           => /\ last.signer = last.pre.buyer
              /\ last.pre.status \in {"Created", "Locked"}
              /\ last.transfer = "moved"
              /\ last.from = last.order /\ last.to = last.pre.seller
              /\ balance[last.order] = 0
              /\ escrow[last.order].status = "Released"
              /\ escrow[last.order].released_at # NoTime
    /\ (/\ last.op \in {"confirm_delivery", "release_escrow"}
        /\ last.pre.status \in {"Disputed", "Released", "Refunded"})
           => last.res # "Ok"

\* Some instruction signed by `signer` takes order o to status `status`.
CanReach(o, signer, status) ==
    ENABLED (Next /\ last'.order = o /\ last'.signer = signer /\ escrow'[o].status = status)

\* C13: from a Disputed record whose custody holds the amount, both outcomes
\* are open: the seller can have it Released and the buyer can have it
\* Refunded.
C13_DisputedHasBothOutcomes ==
    \A o \in Orders :
        (/\ escrow[o].status = "Disputed"
         /\ SeedsConstraint(escrow[o], o) = "Ok"
         /\ balance[o] >= escrow[o].amount)
            => /\ CanReach(o, escrow[o].buyer, "Refunded")
               /\ CanReach(o, escrow[o].seller, "Released")

\* The refund half of C13 alone.
C13_DisputedCanBeRefunded ==
    \A o \in Orders :
        (/\ escrow[o].status = "Disputed"
         /\ SeedsConstraint(escrow[o], o) = "Ok"
         /\ balance[o] >= escrow[o].amount)
            => CanReach(o, escrow[o].buyer, "Refunded")

\* C14: while the record is Locked (not Disputed) a refund signed by the buyer
\* (who is not also the seller) is refused and moves no funds.
C14_BuyerCannotRefundLocked ==
    (/\ Reached
     /\ last.op \in {"refund_escrow", "resolve_refund"}
     /\ last.pre.status = "Locked"
     /\ last.signer = last.pre.buyer /\ last.signer # last.pre.seller
     /\ last.signer \notin ConfiguredAdmins)
        => /\ last.res # "Ok"
           /\ last.transfer # "moved"
           /\ escrow[last.order].status = "Locked"

\* C15: timestamps track transitions: a Refunded record has resolved_at set,
\* released_at is set only on a Released record, resolved_at only on a
\* resolved (terminal) record, and locked_at never on a record still Created.
C15_TimestampsTrackTransitions ==
    \A o \in Orders :
        escrow[o].initialized =>
            /\ escrow[o].status = "Refunded" => escrow[o].resolved_at # NoTime
            /\ escrow[o].released_at # NoTime => escrow[o].status = "Released"
            /\ escrow[o].resolved_at # NoTime => escrow[o].status \in Terminal
            /\ escrow[o].locked_at # NoTime => escrow[o].status # "Created"

\* The payout instructions of the two programs.
PayoutOps ==
    {"confirm_delivery", "resolve_refund", "resolve_release", "release_escrow", "refund_escrow"}

\* C16: a call that returns Unauthorized, InvalidState or NotFound leaves
\* every escrow record and every balance as they were; and a confirm_delivery
\* or release_escrow signed by someone other than the buyer, on a record whose
\* status allows the release, returns Unauthorized and changes nothing.
C16_RejectedCallsChangeNothing ==
    [][/\ (/\ last'.op \in MutatingOps
           /\ Kind(last'.res) \in {"Unauthorized", "InvalidState", "NotFound"})
              => UNCHANGED <<escrow, balance>>
       /\ (/\ last'.op \in {"confirm_delivery", "release_escrow"}
           /\ SeedsConstraint(escrow[last'.order], last'.order) = "Ok"
           /\ escrow[last'.order].status \in AllowedFrom(last'.op)
           /\ last'.signer # escrow[last'.order].buyer)
              => /\ Kind(last'.res) = "Unauthorized"
                 /\ UNCHANGED <<escrow, balance>>]_vars

\* C16 witness: a stranger's release of a releasable escrow was refused as
\* Unauthorized and the record is as it was.
C16_Witness ==
    /\ Reached
    /\ last.op \in {"confirm_delivery", "release_escrow"}
    /\ last.pre.status \in AllowedFrom(last.op)
    /\ last.pre.amount > 0
    /\ last.signer # last.pre.buyer
    /\ Kind(last.res) = "Unauthorized"
    /\ escrow[last.order] = last.pre

\* C17: once created, a record keeps its buyer, seller and amount (and stays
\* the record of its order) through every later call, and every payout that
\* moves funds moves exactly the stored amount.
C17_ImmutableFields ==
    [][/\ \A o \in Orders :
            escrow[o].initialized =>
                /\ escrow'[o].initialized
                /\ escrow'[o].buyer = escrow[o].buyer
                /\ escrow'[o].seller = escrow[o].seller
                /\ escrow'[o].amount = escrow[o].amount
       /\ (/\ last'.op \in PayoutOps
           /\ last'.transfer = "moved"
           /\ last'.from # last'.to)
              => /\ balance'[last'.from] = balance[last'.from] - escrow[last'.order].amount
                 /\ balance'[last'.to] = balance[last'.to] + escrow[last'.order].amount
                 /\ \A a \in Accounts \ {last'.from, last'.to} : balance'[a] = balance[a]]_vars

\* C17 witness: a refund has paid out a positive amount and the record still
\* carries that amount and its parties.
C17_Witness ==
    /\ last.op \in {"refund_escrow", "resolve_refund"}
    /\ last.transfer = "moved"
    /\ last.from # last.to
    /\ last.pre.amount > 0
    /\ escrow[last.order].amount = last.pre.amount
    /\ escrow[last.order].buyer = last.pre.buyer
    /\ escrow[last.order].seller = last.pre.seller

\* C18 (as stated): of two calls on one order that are both allowed from the
\* same non-terminal status, at most one commits: once the first has
\* committed, the second is rejected.
C18_AtMostOneCommits ==
    [][(/\ last.op \in MutatingOps /\ last.res = "Ok"
        /\ last'.op \in MutatingOps /\ last'.order = last.order
        /\ last.pre.status \in Open
        /\ last.pre.status \in AllowedFrom(last.op)
        /\ last.pre.status \in AllowedFrom(last'.op))
           => last'.res # "Ok"]_vars

\* C18 (amended): every call is one indivisible step that is checked against
\* the status the previous call left: it commits only if it is allowed from
\* that status, and after a committed payout every other call is rejected
\* and changes nothing, so two calls allowed from the same status both commit
\* only when the second is also allowed from the status the first wrote.
C18_SecondCallSeesAdvancedStatus ==
    [][last'.op \in MutatingOps =>
        /\ last'.pre = escrow[last'.order]
        /\ last'.res = "Ok" => escrow[last'.order].status \in AllowedFrom(last'.op)
        /\ (/\ last.op \in PayoutOps /\ last.res = "Ok"
            /\ last'.order = last.order)
               => /\ last'.res # "Ok"
                  /\ UNCHANGED <<escrow, balance>>
        /\ (/\ last.op \in MutatingOps /\ last.res = "Ok"
            /\ last'.order = last.order /\ last'.res = "Ok")
               => /\ last.op \in {"lock_dispute", "dispute_escrow"}
                  /\ escrow[last.order].status \in AllowedFrom(last'.op)]_vars

\* C18 witness: a resolve_refund that was allowed while the escrow was Locked
\* arrives after confirm_delivery has released it, and is rejected.
C18_Witness ==
    /\ Reached
    /\ last.op = "resolve_refund"
    /\ last.pre.status = "Released"
    /\ last.pre.locked_at # NoTime
    /\ last.pre.released_at # NoTime
    /\ Kind(last.res) = "InvalidState"
    /\ escrow[last.order] = last.pre

C20_NoDoublePayout ==
    [][/\ last'.transfer \in {"none", "moved", "failed"}
       /\ (last'.op \in PayoutOps /\ last'.transfer = "moved")
            => /\ last'.res = "Ok"
               /\ escrow[last'.order].status \in Open
               /\ escrow'[last'.order].status \in Terminal
               /\ \A a \in Accounts :
                    balance'[a] >= balance[a] - escrow[last'.order].amount
       /\ \A o \in Orders :
            escrow[o].status \in Terminal
                => /\ escrow'[o] = escrow[o]
                   /\ last'.order = o => (last'.transfer # "moved" /\ balance' = balance)]_vars

\* C20 witness: after the escrow was released to the seller, a refund of the
\* same order was asked for and nothing was paid.
C20_Witness ==
    /\ Reached
    /\ last.op \in {"refund_escrow", "resolve_refund"}
    /\ last.pre.status = "Released"
    /\ last.pre.amount > 0
    /\ last.pre.buyer # last.pre.seller
    /\ last.transfer = "none"
    /\ balance[last.pre.buyer] < MaxAmount + last.pre.amount

\* Some single permitted call takes order o to the given status.
CanBecome(o, status) == ENABLED (Next /\ last'.order = o /\ escrow'[o].status = status)

\* The record of order o can be operated on: it is Created, Locked or
\* Disputed, its account passes the seeds constraint, and (program escrow,
\* which pays out of the order's token account) custody holds the amount, so
\* that the Ledger has no reason to refuse the payout.
Operable(o) ==
    /\ escrow[o].initialized /\ escrow[o].status \in Open
    /\ SeedsConstraint(escrow[o], o) = "Ok"
    /\ program = "escrow" => balance[o] >= escrow[o].amount

\* C21: no stuck funds: every operable record can still be brought to
\* Released or Refunded by some permitted call, and a Disputed record, like a
\* record left Created, can still be Released.
C21_NoStuckFunds ==
    \A o \in Orders :
        Operable(o)
            => /\ CanBecome(o, "Released") \/ CanBecome(o, "Refunded")
               /\ escrow[o].status \in {"Created", "Disputed"} => CanBecome(o, "Released")

\* The part of C21 that the programs do provide: some payout is always
\* possible, and a Created record can be Released.
C21_SomePayoutIsPossible ==
    \A o \in Orders :
        Operable(o)
            => /\ CanBecome(o, "Released") \/ CanBecome(o, "Refunded")
               /\ escrow[o].status = "Created" => CanBecome(o, "Released")

\* ------------------------------------------------------------ NFT claims
\* Every serial in the index names a stored NFT that carries it, every stored
\* NFT is indexed under its serial, the NFTs stored are those numbered below
\* the counter, and no two of them share a serial.
SerialsAreUnique ==
    /\ DOMAIN NFTS = 0..(NFT_COUNTER - 1)
    /\ \A sn \in DOMAIN SERIAL_TO_NFT :
          /\ SERIAL_TO_NFT[sn] \in DOMAIN NFTS
          /\ NFTS[SERIAL_TO_NFT[sn]].serial_number = sn
    /\ \A id \in DOMAIN NFTS :
          /\ NFTS[id].serial_number \in DOMAIN SERIAL_TO_NFT
          /\ SERIAL_TO_NFT[NFTS[id].serial_number] = id
    /\ \A id1, id2 \in DOMAIN NFTS :
          NFTS[id1].serial_number = NFTS[id2].serial_number => id1 = id2

\* C22: serial uniqueness: after every call each serial maps to exactly one
\* NFT id and no two stored NFTs share a serial; a mint of a serial that is
\* already there returns an error and leaves the counter, the NFT map and the
\* indexes unchanged, and a mint that succeeds is of a serial that was not
\* there.
C22_SerialUniqueness ==
    [][/\ SerialsAreUnique'
       /\ reply'.op = "mint" =>
            IF reply'.arg \in DOMAIN SERIAL_TO_NFT
            THEN /\ reply'.res = "SerialExists"
                 /\ UNCHANGED <<NFT_COUNTER, NFTS, SERIAL_TO_NFT, OWNER_NFTS>>
            ELSE /\ reply'.res = "Ok"
                 /\ NFT_COUNTER' = NFT_COUNTER + 1
                 /\ SERIAL_TO_NFT'[reply'.arg] = reply'.nft_id
                 /\ reply'.nft_id \notin DOMAIN NFTS]_vars

\* C22 witness: two NFTs with different serials are stored and a further mint
\* of one of the serials has just been refused.
C22_Witness ==
    /\ Cardinality(DOMAIN NFTS) = 2
    /\ NFTS[0].serial_number # NFTS[1].serial_number
    /\ reply.op = "mint" /\ reply.res = "SerialExists"
    /\ reply.caller # NFTS[SERIAL_TO_NFT[reply.arg]].owner

\* C23: transfer authorization: a transfer_nft by the NFT's current owner
\* makes the named principal its owner; a transfer_nft by anyone else, or of
\* an unknown id, returns an error and leaves the NFTs (owner and history),
\* the counter and every index unchanged; and no call of any other kind
\* changes an owner, so an NFT's owner is the caller of its mint until a
\* transfer by the owner succeeds, and then that transfer's recipient.
C23_TransferAuthorization ==
    [][/\ reply'.op = "transfer" =>
            IF reply'.nft_id \in DOMAIN NFTS /\ NFTS[reply'.nft_id].owner = reply'.caller
            THEN /\ reply'.res = "Ok"
                 /\ NFTS'[reply'.nft_id].owner = reply'.arg
            ELSE /\ reply'.res \in {"NotFound", "NotOwner"}
                 /\ UNCHANGED <<NFTS, SERIAL_TO_NFT, OWNER_NFTS, NFT_COUNTER>>
       /\ \A id \in DOMAIN NFTS :
            /\ id \in DOMAIN NFTS'
            /\ NFTS'[id].owner # NFTS[id].owner
                 => /\ reply'.op = "transfer" /\ reply'.res = "Ok"
                    /\ reply'.nft_id = id
                    /\ reply'.caller = NFTS[id].owner
                    /\ NFTS'[id].owner = reply'.arg
       /\ \A id \in DOMAIN NFTS' \ DOMAIN NFTS :
            /\ reply'.op = "mint" /\ reply'.res = "Ok" /\ reply'.nft_id = id
            /\ NFTS'[id].owner = reply'.caller]_vars

\* C23 witness: the minter has given the NFT away and then tried to transfer
\* it again; the call was refused and the recipient is still the owner.
C23_Witness ==
    /\ canister = "nft_canister"
    /\ reply.op = "transfer" /\ reply.res = "NotOwner"
    /\ reply.nft_id \in DOMAIN NFTS
    /\ Len(NFTS[reply.nft_id].transfer_history) = 1
    /\ NFTS[reply.nft_id].transfer_history[1].from = reply.caller
    /\ NFTS[reply.nft_id].owner = NFTS[reply.nft_id].transfer_history[1].to
    /\ NFTS[reply.nft_id].owner # reply.caller

\* How many times nft_id occurs in p's Vec of the owner index.
Occurrences(p, nft_id) ==
    IF p \notin DOMAIN OWNER_NFTS THEN 0
    ELSE Cardinality({i \in 1..Len(OWNER_NFTS[p]) : OWNER_NFTS[p][i] = nft_id})

\* C24: owner index consistency (nft_canister): an nft id is in OWNER_NFTS[p]
\* exactly when the NFT is stored with owner p, and then exactly once; so
\* get_owner_nfts(p) returns the NFTs whose owner is p, each once.
C24_OwnerIndexConsistency ==
    canister = "nft_canister" =>
        \A p \in Principals :
            /\ \A id \in NftIds :
                  Occurrences(p, id) =
                      IF id \in DOMAIN NFTS /\ NFTS[id].owner = p THEN 1 ELSE 0
            /\ {get_owner_nfts(p)[i] : i \in 1..Len(get_owner_nfts(p))}
                  = {NFTS[id] : id \in {x \in DOMAIN NFTS : NFTS[x].owner = p}}
            /\ Len(get_owner_nfts(p))
                  = Cardinality({x \in DOMAIN NFTS : NFTS[x].owner = p})

\* C24 witness: the owner of two NFTs has just transferred one of them to
\* itself, and the other principal's Vec has been emptied by a transfer back.
C24_Witness ==
    /\ canister = "nft_canister"
    /\ reply.op = "transfer" /\ reply.res = "Ok" /\ reply.arg = reply.caller
    /\ Len(get_owner_nfts(reply.caller)) = 2
    /\ \E p \in DOMAIN OWNER_NFTS : OWNER_NFTS[p] = <<>>

\* The history log of an NFT: ownership_history in icp_nft, transfer_history
\* in nft_canister.
History(nft) ==
    IF canister = "icp_nft" THEN nft.ownership_history ELSE nft.transfer_history

\* The log agrees with the owner: in icp_nft it starts with a "mint" record
\* and its last record names the owner; in nft_canister every record starts
\* from where the one before it ended and the last one ends at the owner.
HistoryMatchesOwner(nft) ==
    IF canister = "icp_nft"
    THEN /\ Len(nft.ownership_history) >= 1
         /\ nft.ownership_history[1].transaction_type = "mint"
         /\ nft.ownership_history[Len(nft.ownership_history)].owner = nft.owner
    ELSE /\ \A i \in 2..Len(nft.transfer_history) :
                nft.transfer_history[i].from = nft.transfer_history[i - 1].to
         /\ Len(nft.transfer_history) >= 1
                => nft.transfer_history[Len(nft.transfer_history)].to = nft.owner

\* C25: the ownership history is an append-only log that agrees with the
\* owner: in every call the log of each NFT stays as it is or gains one
\* record at its end, it gains one exactly when the call is a successful
\* transfer of that NFT, the record gained starts from the owner before the
\* call (the minter, for the first one), and after every call the log of
\* every stored NFT agrees with its owner.
C25_HistoryIsAppendOnly ==
    [][/\ \A id \in DOMAIN NFTS :
            /\ id \in DOMAIN NFTS'
            /\ \/ History(NFTS'[id]) = History(NFTS[id])
               \/ /\ Len(History(NFTS'[id])) = Len(History(NFTS[id])) + 1
                  /\ SubSeq(History(NFTS'[id]), 1, Len(History(NFTS[id])))
                        = History(NFTS[id])
            /\ (Len(History(NFTS'[id])) = Len(History(NFTS[id])) + 1)
                  <=> (reply'.op = "transfer" /\ reply'.res = "Ok" /\ reply'.nft_id = id)
            /\ (canister = "nft_canister" /\ History(NFTS'[id]) # History(NFTS[id]))
                  => NFTS'[id].transfer_history[Len(NFTS'[id].transfer_history)].from
                        = NFTS[id].owner
       /\ \A id \in DOMAIN NFTS' : HistoryMatchesOwner(NFTS'[id])]_vars

\* C25 witness (icp_nft): an NFT that went from its minter to another
\* principal and back has been revoked by the admin; its log still has the
\* mint record and both transfers.
C25_Witness ==
    /\ canister = "icp_nft"
    /\ reply.op = "revoke" /\ reply.res = "Ok"
    /\ ~NFTS[reply.nft_id].verified
    /\ Len(NFTS[reply.nft_id].ownership_history) = 3
    /\ NFTS[reply.nft_id].ownership_history[2].owner
          # NFTS[reply.nft_id].ownership_history[1].owner
    /\ NFTS[reply.nft_id].ownership_history[3].owner = NFTS[reply.nft_id].owner

====
